---------------------------- MODULE Spec2Model ----------------------------
(***************************************************************************)
(* Model of the session Peerset (node/runtime/src/peerset.rs) and of the   *)
(* discovery behaviour (node/network/src/discovery.rs) of tss-libp2p.      *)
(*                                                                         *)
(* A PeerId is named by a natural number; PeerIdToBytes gives its          *)
(* canonical byte encoding (38 bytes for an ed25519 identity), which is    *)
(* what the code sorts by and what the wire format carries.                *)
(***************************************************************************)
EXTENDS Integers, Sequences, FiniteSets, TLC

(***************************************************************************)
(* Bounds of the model.                                                    *)
(***************************************************************************)
MaxPeers == 3        \* length of the small inputs of Peerset::new
MaxRecords == 2      \* records of a hand-built input buffer of from_bytes
MaxPending == 2      \* length of pending_events
MaxReady == 1        \* actions a sub-engine holds ready for its poll
MaxConns == 2        \* physical connections open at a time

(***************************************************************************)
(* Program constants.                                                      *)
(***************************************************************************)
IdLen == 38          \* let mut buf = [0; 38]
ByteMod == 256       \* `as u8`
BufCap == 8192       \* capacity of BufReader::new (std DEFAULT_BUF_SIZE)
ChanBuffer == 1      \* mpsc::channel(1)

RecLen == IdLen + 1

Min(a, b) == IF a < b THEN a ELSE b

(***************************************************************************)
(* PeerId::to_bytes: the canonical encoding of identity k.  The first six  *)
(* bytes are the identity-multihash and protobuf header of an ed25519 key, *)
(* the key bytes that follow are a scrambling of k, so that the byte order *)
(* of identities is not the order of their names.                          *)
(***************************************************************************)
KeyOf(k) == (k * 37) % 251

EncodingOf(k) ==
    [i \in 1..IdLen |->
        CASE i = 1 -> 0
          [] i = 2 -> 36
          [] i = 3 -> 8
          [] i = 4 -> 1
          [] i = 5 -> 18
          [] i = 6 -> 32
          [] i = 7 -> KeyOf(k) % 16
          [] i = 8 -> KeyOf(k) \div 16
          [] OTHER -> 0]

\* The encodings of the identities 1 .. 250, computed once.
Encodings == [k \in 1..250 |-> EncodingOf(k)]

PeerIdToBytes(k) == Encodings[k]

(***************************************************************************)
(* PeerId::from_bytes(&buf): the identity whose encoding is buf, or 0 when *)
(* buf is no valid encoding (the code unwraps, so that is a panic).        *)
(***************************************************************************)
PeerIdFromBytes(buf) ==
    LET key == buf[7] + 16 * buf[8]
        k == (key * 95) % 251      \* 37 * 95 % 251 = 1
    IN IF Len(buf) = IdLen /\ k >= 1 /\ PeerIdToBytes(k) = buf THEN k ELSE 0

(***************************************************************************)
(* Ord for Vec<u8>: lexicographic comparison.                              *)
(***************************************************************************)
RECURSIVE BytesLessFrom(_, _, _)
BytesLessFrom(a, b, i) ==
    IF i > Len(a) THEN i <= Len(b)
    ELSE IF i > Len(b) THEN FALSE
    ELSE IF a[i] < b[i] THEN TRUE
    ELSE IF a[i] > b[i] THEN FALSE
    ELSE BytesLessFrom(a, b, i + 1)

BytesLess(a, b) == BytesLessFrom(a, b, 1)

KeyLeq(p, q) == ~BytesLess(PeerIdToBytes(q), PeerIdToBytes(p))

(***************************************************************************)
(* Itertools::sorted_by_key(|p| p.to_bytes()): a stable sort.              *)
(***************************************************************************)
\* x goes after the elements of the sorted s whose key is not greater.
InsertByKey(s, x) ==
    LET at == Cardinality({j \in 1..Len(s) : KeyLeq(s[j], x)})
    IN SubSeq(s, 1, at) \o <<x>> \o SubSeq(s, at + 1, Len(s))

\* Elements i+1 .. i+n of s inserted, in this order, into acc.  (The loops
\* of this module run their n steps in two halves, the first evaluated
\* before the second is entered, which keeps the depth of evaluation
\* logarithmic in n.)
RECURSIVE SortedFrom(_, _, _, _)
SortedFrom(s, i, n, acc) ==
    IF n = 0 THEN acc
    ELSE IF n = 1 THEN InsertByKey(acc, s[i + 1])
    ELSE LET h == n \div 2
             first == SortedFrom(s, i, h, acc)
         IN IF Len(first) >= 0 THEN SortedFrom(s, i + h, n - h, first) ELSE first

sorted_by_key(s) == SortedFrom(s, 0, Len(s), <<>>)

(***************************************************************************)
(* Inputs of the model.                                                    *)
(***************************************************************************)
\* The identities A, B, C, D of the small inputs.
Ids == {1, 2, 3, 4}

SeqsUpTo(S, n) == UNION {[1..m -> S] : m \in 0..n}

SmallInputs == SeqsUpTo(Ids, MaxPeers)

\* A session of one participant more than a BufReader buffer holds whole
\* records (211 participants).
LargeN == BufCap \div RecLen + 1

LargeInput == [i \in 1..LargeN |-> i]

\* Values written to the public field parties_indexes (tests::peerset_encoding).
IndexVals == {0, 2, 258}

IndexBytes == {0, 2}

None == 0 - 1

\* The local identity handed to the constructors (peer_ids[0] in the test).
LocalId == CHOOSE id \in Ids : \A other \in Ids : id <= other

(***************************************************************************)
(* Peerset::index_of: position of the first equal element, as u16.         *)
(***************************************************************************)
RECURSIVE PositionFrom(_, _, _)
PositionFrom(s, x, i) ==
    IF i > Len(s) THEN None
    ELSE IF s[i] = x THEN i - 1
    ELSE PositionFrom(s, x, i + 1)

index_of(peers, peer_id) ==
    LET i == PositionFrom(peers, peer_id, 1)
    IN IF i = None THEN None ELSE i % 65536

(***************************************************************************)
(* Peerset::to_bytes: one record per session peer; parties_indexes[i] is   *)
(* an indexing that panics when i is out of bounds.                        *)
(***************************************************************************)
\* A to_bytes that clamps an index above 255 instead of truncating it.
EncodeStepSaturating(peers, indexes, i, e) ==
    IF ~e.ok THEN e
    ELSE IF i > Len(indexes) THEN [ok |-> FALSE, bytes |-> e.bytes]
    ELSE [ok |-> TRUE,
          bytes |-> e.bytes \o PeerIdToBytes(peers[i])
                            \o <<Min(indexes[i], ByteMod - 1)>>]

EncodeStep(peers, indexes, i, e) ==
    IF ~e.ok THEN e
    ELSE IF i > Len(indexes) THEN [ok |-> FALSE, bytes |-> e.bytes]
    ELSE [ok |-> TRUE,
          bytes |-> e.bytes \o PeerIdToBytes(peers[i]) \o <<indexes[i] % ByteMod>>]

\* Iterations i+1 .. i+n of the loop.
RECURSIVE EncodeFrom(_, _, _, _, _)
EncodeFrom(peers, indexes, i, n, e) ==
    IF n = 0 THEN e
    ELSE IF n = 1 THEN EncodeStep(peers, indexes, i + 1, e)
    ELSE LET h == n \div 2
             first == EncodeFrom(peers, indexes, i, h, e)
         IN IF first.ok \in BOOLEAN
            THEN EncodeFrom(peers, indexes, i + h, n - h, first)
            ELSE first

to_bytes(peers, indexes) ==
    EncodeFrom(peers, indexes, 0, Len(peers), [ok |-> TRUE, bytes |-> <<>>])

(***************************************************************************)
(* BufReader<&[u8]>::read.  pos is the offset of the next unread byte,     *)
(* filled the offset up to which the inner slice has been moved into the   *)
(* internal buffer.  A read is served from what the internal buffer holds  *)
(* and refills it only when it is empty.                                   *)
(***************************************************************************)
NewReader == [pos |-> 0, filled |-> 0]

ReaderRead(bytes, r, n) ==
    IF r.pos = r.filled /\ n >= BufCap
    THEN LET got == Min(n, Len(bytes) - r.filled)
         IN [n |-> got, from |-> r.filled,
             r |-> [pos |-> r.filled + got, filled |-> r.filled + got]]
    ELSE LET filled == IF r.pos >= r.filled
                       THEN Min(r.filled + BufCap, Len(bytes))
                       ELSE r.filled
             got == Min(n, filled - r.pos)
         IN [n |-> got, from |-> r.pos,
             r |-> [pos |-> r.pos + got, filled |-> filled]]

(***************************************************************************)
(* The decoding loop of Peerset::from_bytes.                               *)
(***************************************************************************)
DecodeStart ==
    [done |-> FALSE, ok |-> TRUE, r |-> NewReader, peers |-> <<>>, indexes |-> <<>>]

\* One iteration of the loop; done once the loop has been left (break) or
\* PeerId::from_bytes(..).unwrap() has panicked (ok = FALSE).
DecodeStep(bytes, d) ==
    IF d.done THEN d
    ELSE LET a == ReaderRead(bytes, d.r, IdLen)
         IN IF a.n = IdLen
            THEN LET id == PeerIdFromBytes(SubSeq(bytes, a.from + 1, a.from + IdLen))
                     b == ReaderRead(bytes, a.r, 1)
                     byte == IF b.n = 1 THEN bytes[b.from + 1] ELSE 0
                 IN IF id = 0
                    THEN [d EXCEPT !.done = TRUE, !.ok = FALSE, !.r = a.r]
                    ELSE [d EXCEPT !.r = b.r,
                                   !.peers = Append(d.peers, id),
                                   !.indexes = Append(d.indexes, byte)]
            ELSE [d EXCEPT !.done = TRUE, !.r = a.r]

RECURSIVE DecodeLoop(_, _, _)
DecodeLoop(bytes, n, d) ==
    IF n = 0 THEN d
    ELSE IF n = 1 THEN DecodeStep(bytes, d)
    ELSE LET h == n \div 2
             first == DecodeLoop(bytes, h, d)
         IN IF first.ok \in BOOLEAN THEN DecodeLoop(bytes, n - h, first) ELSE first

\* No more than Len(bytes) \div IdLen iterations read an identity, and the
\* one after them leaves the loop.
from_bytes(bytes) ==
    LET d == DecodeLoop(bytes, Len(bytes) \div IdLen + 1, DecodeStart)
    IN [ok |-> d.ok,
        session_peers |-> sorted_by_key(d.peers),
        parties_indexes |-> d.indexes]

(***************************************************************************)
(* The loop of Peerset::recover_from_cache over a cached Peerset.          *)
(***************************************************************************)
\* A recovery that takes the position of the peer in the cache for its
\* role-index.
RecoverStepPosition(cache, peer_id, acc) ==
    IF ~acc.ok THEN acc
    ELSE LET at == index_of(cache.session_peers, peer_id)
         IN IF at = None THEN acc
            ELSE [acc EXCEPT !.parties_indexes = Append(@, at)]

\* One iteration; cache.parties_indexes[i] panics out of bounds (ok = FALSE).
RecoverStep(cache, peer_id, acc) ==
    IF ~acc.ok THEN acc
    ELSE LET at == index_of(cache.session_peers, peer_id)
         IN IF at = None THEN acc
            ELSE IF at + 1 > Len(cache.parties_indexes)
            THEN [acc EXCEPT !.ok = FALSE]
            ELSE [acc EXCEPT !.parties_indexes =
                                 Append(@, cache.parties_indexes[at + 1])]

\* Iterations i+1 .. i+n of the loop.
RECURSIVE RecoverLoop(_, _, _, _, _)
RecoverLoop(sorted, cache, i, n, acc) ==
    IF n = 0 THEN acc
    ELSE IF n = 1 THEN RecoverStep(cache, sorted[i + 1], acc)
    ELSE LET h == n \div 2
             first == RecoverLoop(sorted, cache, i, h, acc)
         IN IF first.ok \in BOOLEAN
            THEN RecoverLoop(sorted, cache, i + h, n - h, first)
            ELSE first

recovered_indexes(peers, cache) ==
    RecoverLoop(sorted_by_key(peers), cache, 0, Len(peers),
                [ok |-> TRUE, parties_indexes |-> <<>>])

(***************************************************************************)
(* State of one Peerset, of the task that owns it and of its channel to    *)
(* the cache service.                                                      *)
(*   pc              where the owning task is                              *)
(*   local_peer_id, session_peers, parties_indexes   the fields            *)
(*   to_runtime      the messages queued in the mpsc channel               *)
(*   rx_alive        the Receiver returned by new/from_bytes still exists  *)
(*   reply           the one-shot reply channel of the request in flight   *)
(*   last            the last operation, its arguments and its outcome     *)
(*   parked          the senders the channel has parked, oldest first      *)
(*   clone_pc        where the task that owns a clone of the Peerset is    *)
(*   clone_reply     the one-shot reply channel of the clone's request     *)
(***************************************************************************)
VARIABLES pc, local_peer_id, session_peers, parties_indexes,
          to_runtime, rx_alive, reply, last, parked, clone_pc, clone_reply

pvars == <<pc, local_peer_id, session_peers, parties_indexes,
           to_runtime, rx_alive, reply, last, parked, clone_pc, clone_reply>>

(***************************************************************************)
(* State of the DiscoveryBehaviour and of what surrounds it.               *)
(*   kademlia_on, mdns_on   the two Toggles (params.kademlia, params.mdns) *)
(*   user_defined           boot peers and their addresses                 *)
(*   pending_events, num_connections, peers, peer_addresses   the fields   *)
(*   kad_addrs, mdns_addrs  the address books of the two sub-engines       *)
(*   kad_ready, mdns_ready  what the polls of the sub-engines will yield   *)
(*   established            the peers the swarm holds connected            *)
(*   open_conns             the physical connections the swarm holds open  *)
(*   ret                    what the last call returned, if it was poll    *)
(*   discovered             the (peer, address) pairs of the "discovered"  *)
(*                          notifications of Mdns that polls have processed *)
(***************************************************************************)
VARIABLES kademlia_on, mdns_on, user_defined, pending_events, num_connections,
          peers, peer_addresses, kad_addrs, mdns_addrs, kad_ready, mdns_ready,
          established, open_conns, ret, discovered

dvars == <<kademlia_on, mdns_on, user_defined, pending_events, num_connections,
           peers, peer_addresses, kad_addrs, mdns_addrs, kad_ready, mdns_ready,
           established, open_conns, ret, discovered>>

vars == <<pvars, dvars>>

NoReply == [kind |-> "none"]

PeersetInit ==
    /\ pc = "start"
    /\ local_peer_id = 0
    /\ session_peers = <<>>
    /\ parties_indexes = <<>>
    /\ to_runtime = <<>>
    /\ rx_alive = TRUE
    /\ reply = NoReply
    /\ last = [op |-> "none"]
    /\ parked = <<>>
    /\ clone_pc = "none"
    /\ clone_reply = NoReply

(***************************************************************************)
(* Peerset::new(peers, local_peer_id)                                      *)
(***************************************************************************)
\* A constructor that keeps the order of its input.
new_unsorted(ids) ==
    [session_peers |-> ids,
     parties_indexes |-> [i \in 1..Len(ids) |-> i - 1]]

new(ids) ==
    LET sorted == sorted_by_key(ids)
    IN [session_peers |-> sorted,
        parties_indexes |-> [i \in 1..Len(sorted) |-> i - 1]]

NewFrom(inputs) ==
    /\ pc = "start"
    /\ \E ids \in inputs :
          LET p == new(ids)
          IN /\ local_peer_id' = LocalId
             /\ session_peers' = p.session_peers
             /\ parties_indexes' = p.parties_indexes
             /\ last' = [op |-> "new", peers |-> ids]
    /\ pc' = "idle"
    /\ to_runtime' = <<>>
    /\ rx_alive' = TRUE
    /\ reply' = NoReply
    /\ UNCHANGED <<parked, clone_pc, clone_reply>>
    /\ UNCHANGED dvars

New == NewFrom(SmallInputs)

NewLarge == NewFrom({LargeInput})

(***************************************************************************)
(* Input buffers of from_bytes: records in any order, the last one whole,  *)
(* without its index byte, or cut inside its identity; and a buffer whose  *)
(* first 38 bytes are no identity.                                         *)
(***************************************************************************)
Record(id, byte) == PeerIdToBytes(id) \o <<byte>>

RECURSIVE Concat(_)
Concat(ss) == IF ss = <<>> THEN <<>> ELSE Head(ss) \o Concat(Tail(ss))

TailCuts == {0, 1, 20}

Corrupt == [i \in 1..RecLen |-> 255]

Buffers ==
    {LET whole == Concat([i \in 1..Len(rs) |-> Record(rs[i][1], rs[i][2])])
     IN SubSeq(whole, 1, Len(whole) - Min(cut, Len(whole))) :
        rs \in SeqsUpTo(Ids \X IndexBytes, MaxRecords), cut \in TailCuts}
    \cup {Corrupt}

(***************************************************************************)
(* Peerset::from_bytes(bytes, local_peer_id): on the buffers above when    *)
(* the Peerset is first built, and on the output of to_bytes.              *)
(***************************************************************************)
FromBytes ==
    /\ \/ pc = "start"
       \/ pc = "idle" /\ last.op = "to_bytes"
    /\ \E bytes \in (IF pc = "start" THEN Buffers ELSE {last.bytes}) :
          LET p == from_bytes(bytes)
          IN IF p.ok
             THEN /\ pc' = "idle"
                  /\ local_peer_id' = LocalId
                  /\ session_peers' = p.session_peers
                  /\ parties_indexes' = p.parties_indexes
                  /\ last' = [op |-> "from_bytes", bytes |-> bytes,
                              round_trip |-> (pc = "idle"),
                              of_peers |-> session_peers,
                              of_indexes |-> parties_indexes]
             ELSE /\ pc' = "panicked"
                  /\ last' = [op |-> "from_bytes", bytes |-> bytes,
                              round_trip |-> (pc = "idle"),
                              of_peers |-> session_peers,
                              of_indexes |-> parties_indexes]
                  /\ UNCHANGED <<local_peer_id, session_peers, parties_indexes>>
    /\ to_runtime' = <<>>
    /\ rx_alive' = TRUE
    /\ reply' = NoReply
    /\ UNCHANGED <<parked, clone_pc, clone_reply>>
    /\ UNCHANGED dvars

(***************************************************************************)
(* peerset.parties_indexes = vec![..]: the field is public, and the test   *)
(* assigns it a vector as long as session_peers.                           *)
(***************************************************************************)
SetPartiesIndexes ==
    /\ pc = "idle"
    /\ last.op \in {"new", "from_bytes"}
    /\ Len(session_peers) <= MaxPeers
    /\ \E v \in [1..Len(session_peers) -> IndexVals] :
          /\ v # parties_indexes
          /\ parties_indexes' = v
          /\ last' = [op |-> "set_indexes"]
    /\ UNCHANGED <<pc, local_peer_id, session_peers, to_runtime, rx_alive, reply>>
    /\ UNCHANGED <<parked, clone_pc, clone_reply>>
    /\ UNCHANGED dvars

(***************************************************************************)
(* Peerset::to_bytes(&self)                                                *)
(***************************************************************************)
ToBytes ==
    /\ pc = "idle"
    /\ last.op # "to_bytes"
    /\ LET e == to_bytes(session_peers, parties_indexes)
       IN IF e.ok
          THEN /\ last' = [op |-> "to_bytes", bytes |-> e.bytes]
               /\ pc' = "idle"
          ELSE /\ last' = [op |-> "to_bytes_panic"]
               /\ pc' = "panicked"
    /\ UNCHANGED <<local_peer_id, session_peers, parties_indexes,
                   to_runtime, rx_alive, reply>>
    /\ UNCHANGED <<parked, clone_pc, clone_reply>>
    /\ UNCHANGED dvars

(***************************************************************************)
(* Replies of the cache service to a read request: Peersets as the runtime *)
(* may hold them, among them one left by a recovery that skipped peers.    *)
(***************************************************************************)
CacheReplies ==
    {new(<<1, 2, 3>>),
     new(<<>>),
     [session_peers |-> sorted_by_key(<<1, 2>>), parties_indexes |-> <<1, 0>>],
     [session_peers |-> sorted_by_key(<<2, 3, 4>>), parties_indexes |-> <<2, 0, 258>>],
     [session_peers |-> sorted_by_key(<<1, 2, 3>>), parties_indexes |-> <<1>>]}

(***************************************************************************)
(* Sender::send on the channel of mpsc::channel(1): a sender that is       *)
(* parked waits; otherwise its message is queued, and the sender is parked *)
(* if the queue then holds more than the buffer, which keeps its send from *)
(* completing until the receiver unparks it.                               *)
(***************************************************************************)
IsParked(who) == \E i \in 1..Len(parked) : parked[i] = who

ParkAfterSend(queue, who) ==
    IF Len(queue) > ChanBuffer THEN Append(parked, who) ELSE parked

(***************************************************************************)
(* recover_from_cache, up to its second await: the request is sent (a send *)
(* error is ignored, and the message with its reply sender is dropped).    *)
(***************************************************************************)
RecoverSend ==
    /\ pc = "idle"
    /\ ~IsParked("peerset")
    /\ pc' = "recover_wait"
    /\ IF rx_alive
       THEN LET queue == Append(to_runtime, [kind |-> "ReadFromCache",
                                             from |-> "peerset"])
            IN /\ to_runtime' = queue
               /\ parked' = ParkAfterSend(queue, "peerset")
               /\ reply' = [kind |-> "pending"]
       ELSE /\ UNCHANGED <<to_runtime, parked>>
            /\ reply' = [kind |-> "canceled"]
    /\ last' = [op |-> "recover_send"]
    /\ UNCHANGED <<local_peer_id, session_peers, parties_indexes, rx_alive,
                   clone_pc, clone_reply>>
    /\ UNCHANGED dvars

(***************************************************************************)
(* save_to_cache, up to its second await: a clone of the Peerset is sent.  *)
(***************************************************************************)
SaveSend ==
    /\ pc = "idle"
    /\ ~IsParked("peerset")
    /\ pc' = "save_wait"
    /\ IF rx_alive
       THEN LET queue == Append(to_runtime,
                                [kind |-> "WriteToCache", from |-> "peerset",
                                 session_peers |-> session_peers,
                                 parties_indexes |-> parties_indexes])
            IN /\ to_runtime' = queue
               /\ parked' = ParkAfterSend(queue, "peerset")
               /\ reply' = [kind |-> "pending"]
       ELSE /\ UNCHANGED <<to_runtime, parked>>
            /\ reply' = [kind |-> "canceled"]
    /\ last' = [op |-> "save_send"]
    /\ UNCHANGED <<local_peer_id, session_peers, parties_indexes, rx_alive,
                   clone_pc, clone_reply>>
    /\ UNCHANGED dvars

(***************************************************************************)
(* #[derive(Clone)]: a clone of the Peerset, with a clone of its Sender,   *)
(* is handed to another task, which calls recover_from_cache or            *)
(* save_to_cache on it.  Only where that task is and its reply channel are *)
(* kept; the clone's fields are its own.                                   *)
(***************************************************************************)
Clone ==
    /\ pc = "idle"
    /\ clone_pc = "none"
    /\ clone_pc' = "idle"
    /\ UNCHANGED <<pc, local_peer_id, session_peers, parties_indexes,
                   to_runtime, rx_alive, reply, last, parked, clone_reply>>
    /\ UNCHANGED dvars

CloneSend ==
    /\ clone_pc = "idle"
    /\ ~IsParked("clone")
    /\ clone_pc' = "wait"
    /\ IF rx_alive
       THEN \E kind \in {"ReadFromCache", "WriteToCache"} :
               LET queue == Append(to_runtime, [kind |-> kind, from |-> "clone"])
               IN /\ to_runtime' = queue
                  /\ parked' = ParkAfterSend(queue, "clone")
                  /\ clone_reply' = [kind |-> "pending"]
       ELSE /\ UNCHANGED <<to_runtime, parked>>
            /\ clone_reply' = [kind |-> "canceled"]
    /\ UNCHANGED <<pc, local_peer_id, session_peers, parties_indexes,
                   rx_alive, reply, last>>
    /\ UNCHANGED dvars

CloneResume ==
    /\ clone_pc = "wait"
    /\ clone_reply.kind # "pending"
    /\ clone_reply' = NoReply
    /\ clone_pc' = IF clone_reply.kind = "canceled" THEN "panicked" ELSE "idle"
    /\ UNCHANGED <<pc, local_peer_id, session_peers, parties_indexes,
                   to_runtime, rx_alive, reply, last, parked>>
    /\ UNCHANGED dvars

(***************************************************************************)
(* The cache-service actor takes the request at the head of the channel,   *)
(* which unparks the sender parked longest, and answers it, or drops its   *)
(* reply sender without an answer.                                         *)
(***************************************************************************)
CacheServe ==
    /\ rx_alive
    /\ to_runtime # <<>>
    /\ to_runtime' = Tail(to_runtime)
    /\ parked' = IF parked = <<>> THEN <<>> ELSE Tail(parked)
    /\ LET Answer(r) ==
               IF Head(to_runtime).from = "clone"
               THEN clone_reply' = r /\ UNCHANGED reply
               ELSE reply' = r /\ UNCHANGED clone_reply
       IN \/ /\ Head(to_runtime).kind = "ReadFromCache"
             /\ \E c \in CacheReplies : Answer([kind |-> "ok", cache |-> c])
          \/ /\ Head(to_runtime).kind = "WriteToCache"
             /\ Answer([kind |-> "ok"])
          \/ Answer([kind |-> "err"])
          \/ Answer([kind |-> "canceled"])
    /\ UNCHANGED <<pc, local_peer_id, session_peers, parties_indexes,
                   rx_alive, last, clone_pc>>
    /\ UNCHANGED dvars

(***************************************************************************)
(* The Receiver is dropped: queued requests and their reply senders go,    *)
(* and parked senders are woken.                                           *)
(***************************************************************************)
DropReceiver ==
    /\ pc \in {"idle", "recover_wait", "save_wait"}
    /\ rx_alive
    /\ rx_alive' = FALSE
    /\ to_runtime' = <<>>
    /\ parked' = <<>>
    /\ reply' = IF reply.kind = "pending" THEN [kind |-> "canceled"] ELSE reply
    /\ clone_reply' = IF clone_reply.kind = "pending"
                      THEN [kind |-> "canceled"] ELSE clone_reply
    /\ UNCHANGED <<pc, local_peer_id, session_peers, parties_indexes, last,
                   clone_pc>>
    /\ UNCHANGED dvars

(***************************************************************************)
(* Peerset::size and Peerset::len: the number of session peers.            *)
(***************************************************************************)
size(session) == Len(session)

len(session) == Len(session)

\* A variant of recover_from_cache that keeps only the session peers it
\* found in the cache.
RecoverResumeDropsSkipped ==
    /\ pc = "recover_wait"
    /\ reply.kind # "pending"
    /\ reply' = NoReply
    /\ CASE reply.kind = "canceled" ->
              /\ pc' = "panicked"
              /\ last' = [op |-> "recover", outcome |-> "panic"]
              /\ UNCHANGED <<parties_indexes, session_peers>>
         [] reply.kind = "err" ->
              /\ pc' = "idle"
              /\ last' = [op |-> "recover", outcome |-> "err"]
              /\ UNCHANGED <<parties_indexes, session_peers>>
         [] reply.kind = "ok" ->
              LET r == recovered_indexes(session_peers, reply.cache)
              IN IF r.ok
                 THEN /\ pc' = "idle"
                      /\ parties_indexes' = r.parties_indexes
                      /\ session_peers' =
                            SelectSeq(session_peers,
                                      LAMBDA p :
                                        index_of(reply.cache.session_peers, p)
                                            # None)
                      /\ last' = [op |-> "recover", outcome |-> "ok",
                                  cache |-> reply.cache]
                 ELSE /\ pc' = "panicked"
                      /\ last' = [op |-> "recover", outcome |-> "panic"]
                      /\ UNCHANGED <<parties_indexes, session_peers>>
    /\ UNCHANGED <<local_peer_id, to_runtime, rx_alive>>
    /\ UNCHANGED <<parked, clone_pc, clone_reply>>
    /\ UNCHANGED dvars

\* A variant of recover_from_cache that has emptied parties_indexes by
\* the time it returns an error of the cache service.
RecoverResumeErrClears ==
    /\ pc = "recover_wait"
    /\ reply.kind # "pending"
    /\ reply' = NoReply
    /\ CASE reply.kind = "canceled" ->
              /\ pc' = "panicked"
              /\ last' = [op |-> "recover", outcome |-> "panic"]
              /\ UNCHANGED parties_indexes
         [] reply.kind = "err" ->
              /\ pc' = "idle"
              /\ last' = [op |-> "recover", outcome |-> "err"]
              /\ parties_indexes' = <<>>
         [] reply.kind = "ok" ->
              LET r == recovered_indexes(session_peers, reply.cache)
              IN IF r.ok
                 THEN /\ pc' = "idle"
                      /\ parties_indexes' = r.parties_indexes
                      /\ last' = [op |-> "recover", outcome |-> "ok",
                                  cache |-> reply.cache]
                 ELSE /\ pc' = "panicked"
                      /\ last' = [op |-> "recover", outcome |-> "panic"]
                      /\ UNCHANGED parties_indexes
    /\ UNCHANGED <<local_peer_id, session_peers, to_runtime, rx_alive>>
    /\ UNCHANGED <<parked, clone_pc, clone_reply>>
    /\ UNCHANGED dvars

\* A variant of recover_from_cache that returns the loss of its reply
\* channel to the caller as an error.
RecoverResumeCanceledAsErr ==
    /\ pc = "recover_wait"
    /\ reply.kind # "pending"
    /\ reply' = NoReply
    /\ CASE reply.kind \in {"canceled", "err"} ->
              /\ pc' = "idle"
              /\ last' = [op |-> "recover", outcome |-> "err"]
              /\ UNCHANGED parties_indexes
         [] reply.kind = "ok" ->
              LET r == recovered_indexes(session_peers, reply.cache)
              IN IF r.ok
                 THEN /\ pc' = "idle"
                      /\ parties_indexes' = r.parties_indexes
                      /\ last' = [op |-> "recover", outcome |-> "ok",
                                  cache |-> reply.cache]
                 ELSE /\ pc' = "panicked"
                      /\ last' = [op |-> "recover", outcome |-> "panic"]
                      /\ UNCHANGED parties_indexes
    /\ UNCHANGED <<local_peer_id, session_peers, to_runtime, rx_alive>>
    /\ UNCHANGED <<parked, clone_pc, clone_reply>>
    /\ UNCHANGED dvars

(***************************************************************************)
(* recover_from_cache from rx.await on.                                    *)
(***************************************************************************)
RecoverResume ==
    /\ pc = "recover_wait"
    /\ reply.kind # "pending"
    /\ reply' = NoReply
    /\ CASE reply.kind = "canceled" ->
              /\ pc' = "panicked"
              /\ last' = [op |-> "recover", outcome |-> "panic"]
              /\ UNCHANGED parties_indexes
         [] reply.kind = "err" ->
              /\ pc' = "idle"
              /\ last' = [op |-> "recover", outcome |-> "err"]
              /\ UNCHANGED parties_indexes
         [] reply.kind = "ok" ->
              LET r == recovered_indexes(session_peers, reply.cache)
              IN IF r.ok
                 THEN /\ pc' = "idle"
                      /\ parties_indexes' = r.parties_indexes
                      /\ last' = [op |-> "recover", outcome |-> "ok",
                                  cache |-> reply.cache]
                 ELSE /\ pc' = "panicked"
                      /\ last' = [op |-> "recover", outcome |-> "panic"]
                      /\ UNCHANGED parties_indexes
    /\ UNCHANGED <<local_peer_id, session_peers, to_runtime, rx_alive>>
    /\ UNCHANGED <<parked, clone_pc, clone_reply>>
    /\ UNCHANGED dvars

(***************************************************************************)
(* save_to_cache from rx.await on.                                         *)
(***************************************************************************)
SaveResume ==
    /\ pc = "save_wait"
    /\ reply.kind # "pending"
    /\ reply' = NoReply
    /\ IF reply.kind = "canceled"
       THEN /\ pc' = "panicked"
            /\ last' = [op |-> "save", outcome |-> "panic"]
       ELSE /\ pc' = "idle"
            /\ last' = [op |-> "save", outcome |-> reply.kind]
    /\ UNCHANGED <<local_peer_id, session_peers, parties_indexes,
                   to_runtime, rx_alive>>
    /\ UNCHANGED <<parked, clone_pc, clone_reply>>
    /\ UNCHANGED dvars

DPeers == {1, 2}

\* params.rooms[..].boot_peers: one boot peer.
BootPeers == <<<<1, "boot_addr">>>>

\* What local discovery finds on the network.
Discoverable == {<<2, "lan_addr">>}

NoAddrs == [p \in DPeers |-> <<>>]

NoRet == [kind |-> "None"]

\* Appends x unless s holds it already (an address book holds an address once).
AddOnce(s, x) == IF \E i \in 1..Len(s) : s[i] = x THEN s ELSE Append(s, x)

RECURSIVE AddAll(_, _)
AddAll(book, list) ==
    IF list = <<>> THEN book
    ELSE AddAll([book EXCEPT ![Head(list)[1]] = AddOnce(@, Head(list)[2])],
                Tail(list))

(***************************************************************************)
(* DiscoveryBehaviour::new                                                 *)
(***************************************************************************)
discovery_new(kademlia, mdns, boot) ==
    [kademlia_on |-> kademlia,
     mdns_on |-> mdns,
     user_defined |-> boot,
     kad_addrs |-> IF kademlia THEN AddAll(NoAddrs, boot) ELSE NoAddrs,
     peers |-> IF kademlia THEN {boot[i][1] : i \in 1..Len(boot)} ELSE {},
     peer_addresses |-> [p \in {} |-> <<>>],
     pending_events |-> <<>>,
     num_connections |-> 0]

DiscoveryInitWith(kademlias, mdnss) ==
    \E kademlia \in kademlias, mdns \in mdnss :
        LET d == discovery_new(kademlia, mdns, BootPeers)
        IN /\ kademlia_on = d.kademlia_on
           /\ mdns_on = d.mdns_on
           /\ user_defined = d.user_defined
           /\ kad_addrs = d.kad_addrs
           /\ peers = d.peers
           /\ peer_addresses = d.peer_addresses
           /\ pending_events = d.pending_events
           /\ num_connections = d.num_connections
           /\ mdns_addrs = NoAddrs
           /\ kad_ready = <<>>
           /\ mdns_ready = <<>>
           /\ established = {}
           /\ open_conns = 0
           /\ ret = NoRet
           /\ discovered = {}

DiscoveryInit == DiscoveryInitWith(BOOLEAN, BOOLEAN)

(***************************************************************************)
(* DiscoveryBehaviour::addresses_of_peer                                   *)
(***************************************************************************)
RECURSIVE UserDefinedOf(_, _)
UserDefinedOf(list, peer_id) ==
    IF list = <<>> THEN <<>>
    ELSE (IF Head(list)[1] = peer_id THEN <<Head(list)[2]>> ELSE <<>>)
         \o UserDefinedOf(Tail(list), peer_id)

addresses_of_peer(peer_id) ==
    UserDefinedOf(user_defined, peer_id)
    \o (IF kademlia_on THEN kad_addrs[peer_id] ELSE <<>>)
    \o (IF mdns_on THEN mdns_addrs[peer_id] ELSE <<>>)

(***************************************************************************)
(* The lifecycle callbacks.  The swarm reports a peer connected when it is *)
(* not, disconnected when it is, and closes connections that are open.     *)
(* What the callbacks forward to Kademlia shows only in what Kademlia      *)
(* later yields (KadProduce).                                              *)
(***************************************************************************)
Connected(p) == [kind |-> "Connected", peer |-> p]
Disconnected(p) == [kind |-> "Disconnected", peer |-> p]

\* A variant of inject_connected that also counts the peer as a connection.
inject_connected_counting ==
    /\ Len(pending_events) < MaxPending
    /\ \E peer_id \in DPeers \ established :
          /\ established' = established \cup {peer_id}
          /\ peer_addresses' =
                 [p \in DOMAIN peer_addresses \cup {peer_id} |->
                     IF p = peer_id THEN addresses_of_peer(peer_id)
                     ELSE peer_addresses[p]]
          /\ peers' = peers \cup {peer_id}
          /\ pending_events' = Append(pending_events, Connected(peer_id))
    /\ num_connections' = num_connections + 1
    /\ ret' = NoRet
    /\ UNCHANGED <<kademlia_on, mdns_on, user_defined, discovered,
                   kad_addrs, mdns_addrs, kad_ready, mdns_ready, open_conns>>
    /\ UNCHANGED pvars

inject_connected ==
    /\ Len(pending_events) < MaxPending
    /\ \E peer_id \in DPeers \ established :
          /\ established' = established \cup {peer_id}
          /\ peer_addresses' =
                 [p \in DOMAIN peer_addresses \cup {peer_id} |->
                     IF p = peer_id THEN addresses_of_peer(peer_id)
                     ELSE peer_addresses[p]]
          /\ peers' = peers \cup {peer_id}
          /\ pending_events' = Append(pending_events, Connected(peer_id))
    /\ ret' = NoRet
    /\ UNCHANGED <<kademlia_on, mdns_on, user_defined,
                   discovered, num_connections,
                   kad_addrs, mdns_addrs, kad_ready, mdns_ready, open_conns>>
    /\ UNCHANGED pvars

\* A variant of inject_disconnected that queues its event ahead of the
\* events already pending.
inject_disconnected_front ==
    /\ Len(pending_events) < MaxPending
    /\ \E peer_id \in established :
          /\ established' = established \ {peer_id}
          /\ pending_events' = <<Disconnected(peer_id)>> \o pending_events
    /\ ret' = NoRet
    /\ UNCHANGED <<kademlia_on, mdns_on, user_defined,
                   discovered, num_connections, peers,
                   peer_addresses, kad_addrs, mdns_addrs, kad_ready, mdns_ready,
                   open_conns>>
    /\ UNCHANGED pvars

inject_disconnected ==
    /\ Len(pending_events) < MaxPending
    /\ \E peer_id \in established :
          /\ established' = established \ {peer_id}
          /\ pending_events' = Append(pending_events, Disconnected(peer_id))
    /\ ret' = NoRet
    /\ UNCHANGED <<kademlia_on, mdns_on, user_defined,
                   discovered, num_connections, peers,
                   peer_addresses, kad_addrs, mdns_addrs, kad_ready, mdns_ready,
                   open_conns>>
    /\ UNCHANGED pvars

inject_connection_established ==
    /\ open_conns < MaxConns
    /\ open_conns' = open_conns + 1
    /\ num_connections' = num_connections + 1
    /\ ret' = NoRet
    /\ UNCHANGED <<kademlia_on, mdns_on, user_defined,
                   discovered, pending_events, peers,
                   peer_addresses, kad_addrs, mdns_addrs, kad_ready, mdns_ready,
                   established>>
    /\ UNCHANGED pvars

inject_connection_closed ==
    /\ open_conns > 0
    /\ open_conns' = open_conns - 1
    /\ num_connections' = num_connections - 1
    /\ ret' = NoRet
    /\ UNCHANGED <<kademlia_on, mdns_on, user_defined,
                   discovered, pending_events, peers,
                   peer_addresses, kad_addrs, mdns_addrs, kad_ready, mdns_ready,
                   established>>
    /\ UNCHANGED pvars

(***************************************************************************)
(* What the polls of the sub-engines yield.                                *)
(***************************************************************************)
ActKinds == {"DialAddress", "DialPeer", "NotifyHandler", "ReportObservedAddr",
             "CloseConnection"}

Act(kind) == [kind |-> kind]

KadItems ==
    {[kind |-> "GenerateEvent", event |-> e] :
        e \in {"RoutingUpdated", "OutboundQueryCompleted"}}
    \cup {Act(k) : k \in ActKinds}

MdnsItems ==
    {[kind |-> "GenerateEvent", event |-> e, list |-> <<pair>>] :
        e \in {"Discovered", "Expired"}, pair \in Discoverable}
    \cup {Act(k) : k \in ActKinds}

\* Kademlia has another action ready.
KadProduce ==
    /\ kademlia_on
    /\ Len(kad_ready) < MaxReady
    /\ \E item \in KadItems : kad_ready' = Append(kad_ready, item)
    /\ ret' = NoRet
    /\ UNCHANGED <<kademlia_on, mdns_on, user_defined,
                   discovered, pending_events,
                   num_connections, peers, peer_addresses, kad_addrs, mdns_addrs,
                   mdns_ready, established, open_conns>>
    /\ UNCHANGED pvars

\* Mdns has another action ready.
MdnsProduce ==
    /\ mdns_on
    /\ Len(mdns_ready) < MaxReady
    /\ \E item \in MdnsItems : mdns_ready' = Append(mdns_ready, item)
    /\ ret' = NoRet
    /\ UNCHANGED <<kademlia_on, mdns_on, user_defined,
                   discovered, pending_events,
                   num_connections, peers, peer_addresses, kad_addrs, mdns_addrs,
                   kad_ready, established, open_conns>>
    /\ UNCHANGED pvars

(***************************************************************************)
(* DiscoveryBehaviour::poll, the loop over Kademlia: events are absorbed,  *)
(* the first other action is returned.                                     *)
(***************************************************************************)
\* A variant of the loop over Kademlia that drops dial actions as the loop
\* over Mdns does.
RECURSIVE KadDrainDropDial(_)
KadDrainDropDial(ready) ==
    IF ready = <<>> THEN [returned |-> FALSE, ready |-> <<>>]
    ELSE IF Head(ready).kind \in {"GenerateEvent", "DialAddress", "DialPeer"}
    THEN KadDrainDropDial(Tail(ready))
    ELSE [returned |-> TRUE, action |-> Head(ready), ready |-> Tail(ready)]

RECURSIVE KadDrain(_)
KadDrain(ready) ==
    IF ready = <<>> THEN [returned |-> FALSE, ready |-> <<>>]
    ELSE IF Head(ready).kind = "GenerateEvent" THEN KadDrain(Tail(ready))
    ELSE [returned |-> TRUE, action |-> Head(ready), ready |-> Tail(ready)]

RemoveAll(book, list) ==
    [p \in DOMAIN book |->
        SelectSeq(book[p], LAMBDA a : ~\E i \in 1..Len(list) : list[i] = <<p, a>>)]

(***************************************************************************)
(* The loop over Mdns: discovered peers go to Kademlia's address book,     *)
(* dials and handler notifications are dropped, the first observed address *)
(* or closed connection is returned.  Mdns itself keeps the addresses of   *)
(* the peers it has discovered until they expire.                          *)
(***************************************************************************)
\* A variant of the loop over Mdns that hands nothing to Kademlia.
RECURSIVE MdnsDrainNoAdd(_, _, _)
MdnsDrainNoAdd(ready, kad, mdns) ==
    IF ready = <<>>
    THEN [returned |-> FALSE, ready |-> <<>>, kad |-> kad, mdns |-> mdns]
    ELSE LET ev == Head(ready)
         IN CASE ev.kind = "GenerateEvent" /\ ev.event = "Discovered" ->
                    MdnsDrainNoAdd(Tail(ready), kad, AddAll(mdns, ev.list))
              [] ev.kind = "GenerateEvent" /\ ev.event = "Expired" ->
                    MdnsDrainNoAdd(Tail(ready), kad, RemoveAll(mdns, ev.list))
              [] ev.kind \in {"DialAddress", "DialPeer", "NotifyHandler"} ->
                    MdnsDrainNoAdd(Tail(ready), kad, mdns)
              [] ev.kind \in {"ReportObservedAddr", "CloseConnection"} ->
                    [returned |-> TRUE, action |-> ev, ready |-> Tail(ready),
                     kad |-> kad, mdns |-> mdns]

\* A variant of the loop over Mdns that returns dials of a peer as the loop
\* over Kademlia does.
RECURSIVE MdnsDrainForwardDial(_, _, _)
MdnsDrainForwardDial(ready, kad, mdns) ==
    IF ready = <<>>
    THEN [returned |-> FALSE, ready |-> <<>>, kad |-> kad, mdns |-> mdns]
    ELSE LET ev == Head(ready)
         IN CASE ev.kind = "GenerateEvent" /\ ev.event = "Discovered" ->
                    MdnsDrainForwardDial(Tail(ready),
                              IF kademlia_on THEN AddAll(kad, ev.list) ELSE kad,
                              AddAll(mdns, ev.list))
              [] ev.kind = "GenerateEvent" /\ ev.event = "Expired" ->
                    MdnsDrainForwardDial(Tail(ready), kad,
                                         RemoveAll(mdns, ev.list))
              [] ev.kind \in {"DialAddress", "NotifyHandler"} ->
                    MdnsDrainForwardDial(Tail(ready), kad, mdns)
              [] ev.kind \in {"DialPeer", "ReportObservedAddr",
                              "CloseConnection"} ->
                    [returned |-> TRUE, action |-> ev, ready |-> Tail(ready),
                     kad |-> kad, mdns |-> mdns]

RECURSIVE MdnsDrain(_, _, _)
MdnsDrain(ready, kad, mdns) ==
    IF ready = <<>>
    THEN [returned |-> FALSE, ready |-> <<>>, kad |-> kad, mdns |-> mdns]
    ELSE LET ev == Head(ready)
         IN CASE ev.kind = "GenerateEvent" /\ ev.event = "Discovered" ->
                    MdnsDrain(Tail(ready),
                              IF kademlia_on THEN AddAll(kad, ev.list) ELSE kad,
                              AddAll(mdns, ev.list))
              [] ev.kind = "GenerateEvent" /\ ev.event = "Expired" ->
                    MdnsDrain(Tail(ready), kad, RemoveAll(mdns, ev.list))
              [] ev.kind \in {"DialAddress", "DialPeer", "NotifyHandler"} ->
                    MdnsDrain(Tail(ready), kad, mdns)
              [] ev.kind \in {"ReportObservedAddr", "CloseConnection"} ->
                    [returned |-> TRUE, action |-> ev, ready |-> Tail(ready),
                     kad |-> kad, mdns |-> mdns]

(***************************************************************************)
(* DiscoveryBehaviour::poll: what it returns and what it leaves of the     *)
(* pending events, of the ready actions of the sub-engines and of their    *)
(* address books.                                                          *)
(***************************************************************************)
PollResult(r, pending, kad_q, mdns_q, kad, mdns) ==
    [ret |-> r, pending_events |-> pending, kad_ready |-> kad_q,
     mdns_ready |-> mdns_q, kad_addrs |-> kad, mdns_addrs |-> mdns]

\* A variant of poll that asks Kademlia before it looks at the pending events.
poll_kademlia_first(pending, kad_q, mdns_q, kad, mdns) ==
    LET k == KadDrain(kad_q)
    IN IF k.returned
       THEN PollResult([kind |-> "Action", from |-> "kademlia",
                        action |-> k.action,
                        kad_polled |-> TRUE, mdns_polled |-> FALSE],
                       pending, k.ready, mdns_q, kad, mdns)
       ELSE IF pending # <<>>
       THEN PollResult([kind |-> "GenerateEvent", event |-> Head(pending),
                        kad_polled |-> TRUE, mdns_polled |-> FALSE],
                       Tail(pending), k.ready, mdns_q, kad, mdns)
       ELSE PollResult([kind |-> "Pending",
                        kad_polled |-> TRUE, mdns_polled |-> FALSE],
                       pending, k.ready, mdns_q, kad, mdns)

\* A variant of poll that reports Pending once Kademlia is drained, without
\* polling Mdns.
poll_skip_mdns(pending, kad_q, mdns_q, kad, mdns) ==
    IF pending # <<>>
    THEN PollResult([kind |-> "GenerateEvent", event |-> Head(pending),
                     kad_polled |-> FALSE, mdns_polled |-> FALSE],
                    Tail(pending), kad_q, mdns_q, kad, mdns)
    ELSE LET k == KadDrain(kad_q)
         IN IF k.returned
            THEN PollResult([kind |-> "Action", from |-> "kademlia",
                             action |-> k.action,
                             kad_polled |-> TRUE, mdns_polled |-> FALSE],
                            pending, k.ready, mdns_q, kad, mdns)
            ELSE PollResult([kind |-> "Pending",
                             kad_polled |-> TRUE, mdns_polled |-> FALSE],
                            pending, k.ready, mdns_q, kad, mdns)

poll(pending, kad_q, mdns_q, kad, mdns) ==
    IF pending # <<>>
    THEN PollResult([kind |-> "GenerateEvent", event |-> Head(pending),
                     kad_polled |-> FALSE, mdns_polled |-> FALSE],
                    Tail(pending), kad_q, mdns_q, kad, mdns)
    ELSE LET k == KadDrain(kad_q)
         IN IF k.returned
            THEN PollResult([kind |-> "Action", from |-> "kademlia",
                             action |-> k.action,
                             kad_polled |-> TRUE, mdns_polled |-> FALSE],
                            pending, k.ready, mdns_q, kad, mdns)
            ELSE LET m == MdnsDrain(mdns_q, kad, mdns)
                 IN IF m.returned
                    THEN PollResult([kind |-> "Action", from |-> "mdns",
                                     action |-> m.action,
                                     kad_polled |-> TRUE, mdns_polled |-> TRUE],
                                    pending, k.ready, m.ready, m.kad, m.mdns)
                    ELSE IF pending # <<>>
                    THEN PollResult([kind |-> "GenerateEvent",
                                     event |-> Head(pending),
                                     kad_polled |-> TRUE, mdns_polled |-> TRUE],
                                    Tail(pending), k.ready, m.ready, m.kad, m.mdns)
                    ELSE PollResult([kind |-> "Pending",
                                     kad_polled |-> TRUE, mdns_polled |-> TRUE],
                                    pending, k.ready, m.ready, m.kad, m.mdns)

\* The pairs of the "discovered" notifications among the items q.
DiscoveredIn(q) ==
    UNION {{q[i].list[j] : j \in 1..Len(q[i].list)} :
              i \in {k \in 1..Len(q) : /\ q[k].kind = "GenerateEvent"
                                       /\ q[k].event = "Discovered"}}

Poll ==
    /\ LET r == poll(pending_events, kad_ready, mdns_ready, kad_addrs, mdns_addrs)
       IN /\ ret' = r.ret
          /\ pending_events' = r.pending_events
          /\ kad_ready' = r.kad_ready
          /\ mdns_ready' = r.mdns_ready
          /\ kad_addrs' = r.kad_addrs
          /\ mdns_addrs' = r.mdns_addrs
          /\ discovered' = discovered \cup
                 DiscoveredIn(SubSeq(mdns_ready, 1,
                                     Len(mdns_ready) - Len(r.mdns_ready)))
    /\ UNCHANGED <<kademlia_on, mdns_on, user_defined, num_connections, peers,
                   peer_addresses, established, open_conns>>
    /\ UNCHANGED pvars

DiscoveryNext ==
    \/ inject_connected
    \/ inject_disconnected
    \/ inject_connection_established
    \/ inject_connection_closed
    \/ KadProduce
    \/ MdnsProduce
    \/ Poll

PeersetNext ==
    \/ New
    \/ FromBytes
    \/ SetPartiesIndexes
    \/ ToBytes
    \/ RecoverSend
    \/ SaveSend
    \/ CacheServe
    \/ DropReceiver
    \/ RecoverResume
    \/ SaveResume

CodecNext ==
    \/ New
    \/ NewLarge
    \/ FromBytes
    \/ SetPartiesIndexes
    \/ ToBytes

\* The Peerset, its owning task and the cache service (beside a
\* DiscoveryBehaviour with both sub-engines disabled, which is left alone).
Init == PeersetInit /\ DiscoveryInitWith({FALSE}, {FALSE})

Next == PeersetNext

Spec == Init /\ [][Next]_vars

\* The same with the owning task scheduled fairly: once its reply channel
\* holds an error or an acknowledgement, or has lost its sender, the task
\* is woken and runs on.
FairSpec ==
    /\ Spec
    /\ WF_vars(reply.kind # "ok" /\ RecoverResume)
    /\ WF_vars(SaveResume)

\* The constructors and the wire encoding of the Peerset, for sessions up
\* to LargeN participants.
CodecSpec == Init /\ [][CodecNext]_vars

\* The Peerset and a clone of it, each owned by a task of its own, sharing
\* the channel to the cache service.
ChannelNext ==
    \/ New
    \/ Clone
    \/ RecoverSend
    \/ SaveSend
    \/ CloneSend
    \/ CacheServe
    \/ DropReceiver
    \/ RecoverResume
    \/ SaveResume
    \/ CloneResume

ChannelSpec == Init /\ [][ChannelNext]_vars

\* The DiscoveryBehaviour, the swarm that calls it and its sub-engines
\* (beside a Peerset not yet built).
DiscoverySpecInit == PeersetInit /\ DiscoveryInit

DiscoverySpec == DiscoverySpecInit /\ [][DiscoveryNext]_vars

\* The DiscoveryBehaviour polled while peers connect and disconnect and
\* its sub-engines produce.  The physical-connection callbacks are left
\* out: they touch num_connections only, which poll never reads.
PollNext ==
    \/ inject_connected
    \/ inject_disconnected
    \/ KadProduce
    \/ MdnsProduce
    \/ Poll

PollSpec == DiscoverySpecInit /\ [][PollNext]_vars

\* The same under fair repeated polling: the swarm does not stop calling
\* poll while a call of it would do something.
FairPollSpec == PollSpec /\ WF_vars(Poll)

\* The lifecycle callbacks of the DiscoveryBehaviour, with polls that
\* drain the events they queue; the sub-engines stay silent.
CallbackNext ==
    \/ inject_connected
    \/ inject_disconnected
    \/ inject_connection_established
    \/ inject_connection_closed
    \/ Poll

CallbackSpec == DiscoverySpecInit /\ [][CallbackNext]_vars


(***************************************************************************)
(* Properties of the Peerset.                                              *)
(***************************************************************************)
Built == pc \in {"idle", "recover_wait", "save_wait"}

Occurrences(s, x) == Cardinality({i \in 1..Len(s) : s[i] = x})

SortedByBytes(s) ==
    \A i, j \in 1..Len(s) :
        i < j => ~BytesLess(PeerIdToBytes(s[j]), PeerIdToBytes(s[i]))

Orders(s) ==
    {[i \in 1..Len(s) |-> s[f[i]]] :
        f \in {g \in [1..Len(s) -> 1..Len(s)] :
                  \A i, j \in 1..Len(s) : i # j => g[i] # g[j]}}

\* C1: in every state of a built Peerset, through any recoveries and saves
\* with any cache replies, session_peers and parties_indexes have the same
\* length.
C1_SameLength == Built => Len(session_peers) = Len(parties_indexes)

\* C2: Peerset::new yields session_peers sorted ascending by byte encoding,
\* holding the identities of its input, with parties_indexes 0..n-1, and
\* yields the same for every order of the same input.
C2_NewIsCanonical ==
    last.op = "new" =>
        /\ SortedByBytes(session_peers)
        /\ Len(session_peers) = Len(last.peers)
        /\ \A i \in 1..Len(last.peers) :
              Occurrences(session_peers, last.peers[i])
                  = Occurrences(last.peers, last.peers[i])
        /\ parties_indexes = [i \in 1..Len(session_peers) |-> i - 1]
        /\ Len(last.peers) <= MaxPeers + 1 =>
              \A q \in Orders(last.peers) :
                  new(q).session_peers = session_peers

C2_Witness ==
    /\ last.op = "new"
    /\ last.peers = <<3, 1, 4>>
    /\ session_peers = <<4, 1, 3>>
    /\ parties_indexes = <<0, 1, 2>>

\* C3: in a Peerset built by new or from_bytes from any input, each
\* identity appears at most once in session_peers.
C3_NoDuplicates ==
    last.op \in {"new", "from_bytes"} /\ Built =>
        \A i, j \in 1..Len(session_peers) :
            i # j => session_peers[i] # session_peers[j]

\* C4: for a Peerset p of at most 255 participants whose parties_indexes
\* each fit in a byte, to_bytes(p) completes and from_bytes of it has p's
\* session_peers and p's parties_indexes.
FitsWire(p_peers, p_indexes) ==
    /\ Len(p_peers) <= 255
    /\ \A i \in 1..Len(p_indexes) : p_indexes[i] < ByteMod

C4_RoundTrip ==
    /\ (last.op = "to_bytes_panic") => ~FitsWire(session_peers, parties_indexes)
    /\ (last.op = "from_bytes" /\ last.round_trip
           /\ FitsWire(last.of_peers, last.of_indexes)) =>
          /\ pc = "idle"
          /\ session_peers = last.of_peers
          /\ parties_indexes = last.of_indexes

\* C5: after recover_from_cache has received the cached Peerset c and
\* returned, parties_indexes holds, for the session peers present in c in
\* their (sorted) order, the role-index c gives each; the peers absent
\* from c contribute nothing.
InCache(c, p) == \E i \in 1..Len(c.session_peers) : c.session_peers[i] = p

CachePosition(c, p) ==
    CHOOSE i \in 1..Len(c.session_peers) :
        /\ c.session_peers[i] = p
        /\ \A j \in 1..(i - 1) : c.session_peers[j] # p

C5_RecoveredIndexes ==
    (last.op = "recover" /\ last.outcome = "ok") =>
        LET c == last.cache
            present == SelectSeq(session_peers, LAMBDA p : InCache(c, p))
        IN /\ SortedByBytes(session_peers)
           /\ Len(parties_indexes) = Len(present)
           /\ \A j \in 1..Len(present) :
                 parties_indexes[j] = c.parties_indexes[CachePosition(c, present[j])]

\* Cache over {A, B, C} with indexes 0, 1, 2, session over {B, C, D}.
C5_Witness ==
    /\ last.op = "recover"
    /\ last.outcome = "ok"
    /\ last.cache = new(<<1, 2, 3>>)
    /\ session_peers = sorted_by_key(<<2, 3, 4>>)
    /\ parties_indexes = <<1, 2>>

\* C6: index_of of the identity at position i is i, and index_of of an
\* identity that is not a session peer is not-found.
C6_IndexOfIsPosition ==
    Built =>
        /\ \A i \in 1..Len(session_peers) :
              index_of(session_peers, session_peers[i]) = i - 1
        /\ \A id \in Ids :
              Occurrences(session_peers, id) = 0 => index_of(session_peers, id) = None

\* C7: to_bytes writes each role-index modulo 256 in the byte after the
\* identity, so every role-index decoded from to_bytes(p) is the original
\* modulo 256, and originals that differ by a multiple of 256 decode to
\* the same value.
C7_IndexByteIsMod256 ==
    /\ last.op = "to_bytes" =>
          \A i \in 1..Len(session_peers) :
              last.bytes[i * RecLen] = parties_indexes[i] % ByteMod
    /\ (last.op = "from_bytes" /\ last.round_trip /\ pc = "idle") =>
          /\ \A i \in 1..Len(parties_indexes) :
                parties_indexes[i] = last.of_indexes[i] % ByteMod
          /\ \A i, j \in 1..Len(parties_indexes) :
                (last.of_indexes[i] - last.of_indexes[j]) % ByteMod = 0
                    => parties_indexes[i] = parties_indexes[j]

C7_Witness ==
    /\ last.op = "from_bytes"
    /\ last.round_trip
    /\ last.of_indexes = <<2, 258>>
    /\ parties_indexes = <<2, 2>>


(***************************************************************************)
(* The Discovery Engine.  A step with ret' other than NoRet is a poll (no  *)
(* other operation returns anything); a step that changes open_conns is a  *)
(* physical-connection callback, one that changes established a            *)
(* peer-level callback.                                                    *)
(***************************************************************************)
Polled == ret'.kind # "None"

\* C8: whenever pending_events is non-empty at the start of a poll, the poll
\* returns the front pending event, pops it, and polls neither sub-engine:
\* their ready actions and address books are left as they were.  So a poll
\* returns an action of a sub-engine only once every pending event (a
\* Connected(X) among them) has been returned.
C8_PendingFirst ==
    [][(Polled /\ pending_events # <<>>) =>
          /\ ret' = [kind |-> "GenerateEvent", event |-> Head(pending_events),
                     kad_polled |-> FALSE, mdns_polled |-> FALSE]
          /\ pending_events' = Tail(pending_events)
          /\ UNCHANGED <<kad_ready, mdns_ready, kad_addrs, mdns_addrs>>]_vars

\* A poll has returned Connected(1) while both sub-engines had an action
\* ready that their polls would have returned.
C8_Witness ==
    /\ ret.kind = "GenerateEvent"
    /\ ret.event = Connected(1)
    /\ ~ret.kad_polled
    /\ kad_ready # <<>>
    /\ Head(kad_ready).kind = "DialPeer"
    /\ mdns_ready # <<>>
    /\ Head(mdns_ready).kind = "CloseConnection"

\* C9: in every reachable state, peers (the spec's connected_peers) is
\* exactly the set of peers that are connected now.
C9_PeersAreConnected == peers = established

Taken(q, q_after) == SubSeq(q, 1, Len(q) - Len(q_after))

IsSuffix(q_after, q) ==
    /\ Len(q_after) <= Len(q)
    /\ q_after = SubSeq(q, Len(q) - Len(q_after) + 1, Len(q))

HasAct(q) == \E i \in 1..Len(q) : q[i].kind \in ActKinds

FirstAct(q) ==
    CHOOSE i \in 1..Len(q) :
        /\ q[i].kind \in ActKinds
        /\ \A j \in 1..(i - 1) : q[j].kind \notin ActKinds

\* C11: a poll that drains Kademlia returns the first act-type action
\* Kademlia yields, unchanged, and takes nothing after it; whatever else a
\* poll takes from Kademlia is a DHT-internal event, which is not returned;
\* and a GenerateEvent a poll returns is the Connected or Disconnected at
\* the front of pending_events.
C11_KadActionsReturned ==
    [][Polled =>
          /\ IsSuffix(kad_ready', kad_ready)
          /\ (pending_events = <<>> /\ HasAct(kad_ready)) =>
                /\ ret' = [kind |-> "Action", from |-> "kademlia",
                           action |-> kad_ready[FirstAct(kad_ready)],
                           kad_polled |-> TRUE, mdns_polled |-> FALSE]
                /\ Len(Taken(kad_ready, kad_ready')) = FirstAct(kad_ready)
          /\ \A i \in 1..Len(Taken(kad_ready, kad_ready')) :
                kad_ready[i].kind \in ActKinds =>
                    /\ ret'.kind = "Action"
                    /\ ret'.from = "kademlia"
                    /\ ret'.action = kad_ready[i]
          /\ ret'.kind = "GenerateEvent" =>
                /\ pending_events # <<>>
                /\ ret'.event = Head(pending_events)
                /\ ret'.event.kind \in {"Connected", "Disconnected"}]_vars

\* A poll has returned Kademlia's dial of a peer.
C11_Witness ==
    /\ ret.kind = "Action"
    /\ ret.from = "kademlia"
    /\ ret.action = Act("DialPeer")
    /\ kad_ready = <<>>

InSeq(s, x) == \E i \in 1..Len(s) : s[i] = x

\* addresses_of_peer(Y) includes addr, for pair = (Y, addr).
InAddresses(pair) == InSeq(addresses_of_peer(pair[1]), pair[2])

\* Mdns still holds (Y, addr): it has discovered it and not seen it expire.
MdnsHolds(pair) == mdns_on /\ InSeq(mdns_addrs[pair[1]], pair[2])

\* The poll of this step processes a "discovered" notification of Mdns.
ProcessesDiscovered ==
    /\ Polled
    /\ DiscoveredIn(Taken(mdns_ready, mdns_ready')) # {}

C13_MdnsNotStarved ==
    (mdns_ready # <<>>) ~> (ret.kind # "None" /\ ret.mdns_polled)

(***************************************************************************)
(* Properties of the cache requests.                                       *)
(***************************************************************************)
Waiting == pc \in {"recover_wait", "save_wait"}

\* C14: when the cache-service actor is gone, recover_from_cache and
\* save_to_cache panic.  A call never waits on a Receiver that has been
\* dropped (its reply channel is canceled then, as it is when the reply
\* sender is dropped); a call whose reply channel is canceled ends in a
\* panic of its task, with session_peers and parties_indexes as they
\* were, and not in a returned error; and it does end.
C14_ActorGoneIsFatal ==
    /\ []((Waiting /\ ~rx_alive) => reply.kind # "pending")
    /\ [][(Waiting /\ reply.kind = "canceled" /\ pc' # pc) =>
             /\ pc' = "panicked"
             /\ last'.outcome = "panic"
             /\ UNCHANGED <<session_peers, parties_indexes>>]_vars
    /\ (Waiting /\ reply.kind = "canceled") ~> (pc = "panicked")

\* recover_from_cache of a Peerset without peers (which no cached Peerset
\* can make fail) has panicked after the Receiver was dropped.
C14_Witness ==
    /\ pc = "panicked"
    /\ last = [op |-> "recover", outcome |-> "panic"]
    /\ ~rx_alive
    /\ session_peers = <<>>
    /\ parties_indexes = <<>>

\* C15: at most one cache request is queued unserved in the channel at any
\* time, whichever of the Peerset and its clone sent it.
C15_OneRequestQueued == Len(to_runtime) <= ChanBuffer

\* The records of a buffer of whole records: the identity and the index
\* byte of each.
RecordsOf(bytes) ==
    [k \in 1..(Len(bytes) \div RecLen) |->
        [id |-> PeerIdFromBytes(SubSeq(bytes, (k - 1) * RecLen + 1,
                                       (k - 1) * RecLen + IdLen)),
         index |-> bytes[k * RecLen]]]

\* C16: from_bytes of a buffer of whole records, in any order, yields as
\* many peers and indexes as records, and at every position i
\* parties_indexes[i] is the index byte of a record of identity
\* session_peers[i].
C16_IndexFollowsPeer ==
    (last.op = "from_bytes" /\ pc = "idle" /\ Len(last.bytes) % RecLen = 0) =>
        LET recs == RecordsOf(last.bytes)
        IN /\ Len(session_peers) = Len(recs)
           /\ Len(parties_indexes) = Len(recs)
           /\ \A i \in 1..Len(session_peers) :
                 \E k \in 1..Len(recs) :
                     /\ recs[k].id = session_peers[i]
                     /\ recs[k].index = parties_indexes[i]

\* C17: pending_events is a FIFO queue between the peer-level callbacks
\* and poll.  A callback for peer p appends exactly one event, Connected(p)
\* or Disconnected(p), behind the events pending; a poll either returns the
\* event at the front and removes just that one, or returns no event and
\* leaves the queue as it is; and nothing else touches the queue.  So every
\* event is returned once, in the order of the callbacks.
C17_PendingIsFifo ==
    [][/\ (established' # established) =>
              \E p \in DPeers :
                  \/ /\ p \notin established
                     /\ established' = established \cup {p}
                     /\ pending_events' = Append(pending_events, Connected(p))
                  \/ /\ p \in established
                     /\ established' = established \ {p}
                     /\ pending_events' = Append(pending_events, Disconnected(p))
       /\ Polled =>
              \/ /\ ret'.kind = "GenerateEvent"
                 /\ pending_events # <<>>
                 /\ ret'.event = Head(pending_events)
                 /\ pending_events' = Tail(pending_events)
              \/ /\ ret'.kind # "GenerateEvent"
                 /\ pending_events = <<>>
                 /\ pending_events' = <<>>
       /\ (~Polled /\ established' = established) =>
              pending_events' = pending_events]_vars

\* Peer 1 connected and disconnected before any poll; the first poll since
\* has returned Connected(1), and Disconnected(1) is what is left.
C17_Witness ==
    /\ ret.kind = "GenerateEvent"
    /\ ret.event = Connected(1)
    /\ pending_events = <<Disconnected(1)>>
    /\ established = {}

\* What the loop over Mdns consumes without returning it: dials, handler
\* notifications and "expired" notifications.
Consumed(item) ==
    \/ item.kind \in {"DialAddress", "DialPeer", "NotifyHandler"}
    \/ item.kind = "GenerateEvent" /\ item.event = "Expired"

\* C18: an action of Mdns that a poll returns is an observed address or a
\* closed connection, the last item the poll took from Mdns; a dial, a
\* handler notification or an "expired" notification the poll takes is not
\* returned; and a poll that takes nothing else from Mdns reports Pending
\* and leaves the fields of the DiscoveryBehaviour and Kademlia's address
\* book as they were.
C18_MdnsForwardsOnly ==
    [][Polled =>
          LET taken == Taken(mdns_ready, mdns_ready')
          IN /\ IsSuffix(mdns_ready', mdns_ready)
             /\ (ret'.kind = "Action" /\ ret'.from = "mdns") =>
                   /\ ret'.action.kind \in {"ReportObservedAddr",
                                            "CloseConnection"}
                   /\ taken # <<>>
                   /\ ret'.action = taken[Len(taken)]
             /\ \A i \in 1..Len(taken) :
                   Consumed(taken[i]) =>
                       ~(/\ ret'.kind = "Action"
                         /\ ret'.from = "mdns"
                         /\ i = Len(taken))
             /\ (taken # <<>> /\ \A i \in 1..Len(taken) : Consumed(taken[i])) =>
                   /\ ret'.kind = "Pending"
                   /\ UNCHANGED <<user_defined, pending_events, num_connections,
                                  peers, peer_addresses, kad_addrs>>]_vars

\* A poll has returned the observed address Mdns reported.
C18_Witness ==
    /\ ret.kind = "Action"
    /\ ret.from = "mdns"
    /\ ret.action = Act("ReportObservedAddr")
    /\ ret.mdns_polled
    /\ mdns_ready = <<>>

\* C19: in every state poll comes to a result (an event, an action or
\* Pending), having taken from each sub-engine no more than it had ready
\* (each turn of its loops takes one item); and
\* it reports Pending only if pending_events is empty and it has polled
\* both sub-engines until neither had anything left, none of which was an
\* action it returns.
C19_PollTerminates ==
    /\ [](poll(pending_events, kad_ready, mdns_ready,
               kad_addrs, mdns_addrs).ret.kind
              \in {"GenerateEvent", "Action", "Pending"})
    /\ [][Polled =>
             /\ IsSuffix(kad_ready', kad_ready)
             /\ IsSuffix(mdns_ready', mdns_ready)
             /\ ret'.kind = "Pending" =>
                   /\ pending_events = <<>>
                   /\ ret'.kad_polled
                   /\ ret'.mdns_polled
                   /\ kad_ready' = <<>>
                   /\ mdns_ready' = <<>>
                   /\ ~HasAct(kad_ready)
                   /\ \A i \in 1..Len(mdns_ready) :
                         mdns_ready[i].kind \notin {"ReportObservedAddr",
                                                    "CloseConnection"}]_vars

\* With both sub-engines enabled, a poll has polled both and reported
\* Pending, after Mdns had discovered peer 2.
C19_Witness ==
    /\ kademlia_on
    /\ mdns_on
    /\ ret = [kind |-> "Pending", kad_polled |-> TRUE, mdns_polled |-> TRUE]
    /\ discovered # {}
    /\ kad_ready = <<>>
    /\ mdns_ready = <<>>

\* C20: when the cache service answers a read request with an error,
\* recover_from_cache returns the error to its caller, whose task runs on,
\* and session_peers, parties_indexes and the local identity are as they
\* were before the call.
C20_ErrorIsReturned ==
    [][(pc = "recover_wait" /\ reply.kind = "err" /\ pc' # pc) =>
          /\ pc' = "idle"
          /\ last' = [op |-> "recover", outcome |-> "err"]
          /\ UNCHANGED <<session_peers, parties_indexes, local_peer_id>>]_vars

\* recover_from_cache of a Peerset of three peers has returned an error.
C20_Witness ==
    /\ pc = "idle"
    /\ last = [op |-> "recover", outcome |-> "err"]
    /\ session_peers = sorted_by_key(<<1, 2, 3>>)
    /\ parties_indexes = <<0, 1, 2>>

\* C21: recover_from_cache, from its call to its return or panic and
\* whatever the cache service replies, leaves session_peers, the local
\* identity, size(), len() and the index_of of every identity as they
\* were; only parties_indexes may differ.
C21_RecoverChangesOnlyIndexes ==
    [][(pc = "recover_wait" \/ pc' = "recover_wait") =>
          /\ UNCHANGED <<session_peers, local_peer_id>>
          /\ size(session_peers') = size(session_peers)
          /\ len(session_peers') = len(session_peers)
          /\ \A id \in Ids :
                index_of(session_peers', id) = index_of(session_peers, id)]_vars

\* A recovery from a cache over two of the three session peers has
\* returned two role-indexes, and size() is still three.
C21_Witness ==
    /\ pc = "idle"
    /\ last.op = "recover"
    /\ last.outcome = "ok"
    /\ Len(last.cache.session_peers) = 2
    /\ parties_indexes = <<1, 0>>
    /\ size(session_peers) = 3
    /\ len(session_peers) = 3
    /\ session_peers = sorted_by_key(<<1, 2, 3>>)

====
